---- MODULE Spec2Model ----
(***************************************************************************)
(* Word Quest: the sentence controller of the Home component (direct-key   *)
(* variant), its validator generatePair, and the asynchronous activities   *)
(* it leaves outstanding (oracle calls and settle timers).                 *)
(*                                                                         *)
(* A word is a sequence of one-character strings, so that the trailing     *)
(* period and the letter case are things the operators really compute.    *)
(* React state is updated in batches: every synchronous segment of a       *)
(* handler (up to its next await) is one action, followed by the render    *)
(* and the effects that render triggers.  A handler sees the state of the  *)
(* render it was created in, so a settle timer carries the words and the   *)
(* prefetched pair captured when the choice was made.                      *)
(***************************************************************************)
EXTENDS Integers, Sequences, FiniteSets, TLC

VARIABLES words, phase, currentPair, prefetchedPair, chosenSide, targetLength,
          isLoading, sentenceCount, apiKey, keyInput, keyError,
          prefetchRef, groqRef, stored, mounted, calls, timers, micro, last, begun, draws, probe

vars == <<words, phase, currentPair, prefetchedPair, chosenSide, targetLength,
          isLoading, sentenceCount, apiKey, keyInput, keyError,
          prefetchRef, groqRef, stored, mounted, calls, timers, micro, last, begun, draws, probe>>

----------------------------------------------------------------------------
(* Bounds of the model *)

MaxCalls == 2
MaxTimers == 2
MaxBegins == 2
MaxPrefetchAnswered == 1
MaxPeriodOffered == 0
MaxForgetWords == 1
MaxRechooseWords == 0

(* Program constants *)

TargetMin == 8
TargetSpan == 5

----------------------------------------------------------------------------
(* Values *)

Null == [null |-> TRUE]
NoKey == <<>>
Letters == <<"a", "b", "c", "d", "e", "f", "g", "h", "i", "j", "k", "l", "m", "n", "o">>
Capitals == <<"A", "B", "C", "D", "E", "F", "G", "H", "I", "J", "K", "L", "M", "N", "O">>

Sides == {"safe", "leap"}
NoSide == "none"

TheKey == <<"k">>
KeyInputs == {<<>>, <<" ">>, <<" ", "k", " ">>}

----------------------------------------------------------------------------
(* String operations of generatePair and chooseWord *)

EndsWithPeriod(w) == Len(w) > 0 /\ w[Len(w)] = "."

StripPeriod(w) == IF EndsWithPeriod(w) THEN SubSeq(w, 1, Len(w) - 1) ELSE w

LowerChar(c) ==
    IF \E i \in 1..Len(Capitals) : Capitals[i] = c
    THEN Letters[CHOOSE i \in 1..Len(Capitals) : Capitals[i] = c]
    ELSE c

ToLowerCase(w) == [i \in 1..Len(w) |-> LowerChar(w[i])]

Clean(w) == ToLowerCase(StripPeriod(w))

AddPeriod(w) == Append(w, ".")

RECURSIVE TrimLeft(_)
TrimLeft(s) == IF Len(s) > 0 /\ s[1] = " " THEN TrimLeft(Tail(s)) ELSE s

RECURSIVE TrimRight(_)
TrimRight(s) == IF Len(s) > 0 /\ s[Len(s)] = " "
                THEN TrimRight(SubSeq(s, 1, Len(s) - 1)) ELSE s

Trim(s) == TrimRight(TrimLeft(s))

UsedWordsExact(ws) == {ws[i] : i \in 1..Len(ws)}

UsedWords(ws) == {Clean(ws[i]) : i \in 1..Len(ws)}

----------------------------------------------------------------------------
(* The validator: lines 111-127 of generatePair.  A response is a thrown   *)
(* error, a message without content, content that is not JSON, or a JSON   *)
(* object whose safe and leap fields may be empty.                         *)

MissingFieldNever(raw) == FALSE

(* generatePair line 115: !pair.safe || !pair.leap *)
MissingField(raw) == raw.safe = <<>> \/ raw.leap = <<>>

ValidatePairUnrepaired(raw, used) ==
    IF MissingField(raw) THEN Null
    ELSE IF Clean(raw.safe) \in used /\ Clean(raw.leap) \in used THEN Null
    ELSE raw

ValidatePair(raw, used) ==
    IF MissingField(raw) THEN Null
    ELSE LET safeClean == Clean(raw.safe)
             leapClean == Clean(raw.leap)
         IN IF safeClean \in used /\ leapClean \in used THEN Null
            ELSE LET p1 == IF safeClean \in used
                           THEN [raw EXCEPT !.safe = raw.leap] ELSE raw
                     p2 == IF leapClean \in used
                           THEN [p1 EXCEPT !.leap = p1.safe] ELSE p1
                 IN p2

ParseResponse(resp, ws) ==
    IF resp.kind # "json" THEN Null
    ELSE ValidatePair([safe |-> resp.safe, leap |-> resp.leap], UsedWords(ws))

----------------------------------------------------------------------------
(* The oracle.  For a request made for the word sequence ws it may fail,  *)
(* or answer with the first letter not in ws as safe and the same letter with  *)
(* a period as leap, or with a capitalised, period-bearing repeat of the   *)
(* first word of ws on either side, or with an empty field.  Prefetch requests *)
(* for more than MaxPrefetchAnswered words are left to fail.               *)

RECURSIVE FirstUnused(_, _)
FirstUnused(used, i) ==
    IF i >= Len(Letters) \/ <<Letters[i]>> \notin used THEN <<Letters[i]>>
    ELSE FirstUnused(used, i + 1)

FreshWord(ws) == FirstUnused(UsedWords(ws), 1)

UpperChar(c) ==
    IF \E i \in 1..Len(Letters) : Letters[i] = c
    THEN Capitals[CHOOSE i \in 1..Len(Letters) : Letters[i] = c]
    ELSE c

RepeatWord(ws) == <<UpperChar(ws[1][1]), ".">>

JsonResponses(ws) ==
    LET f == FreshWord(ws)
    IN {[kind |-> "json", safe |-> f, leap |-> <<>>]}
       \cup (IF Len(ws) <= MaxPeriodOffered
             THEN {[kind |-> "json", safe |-> f, leap |-> AddPeriod(f)]}
             ELSE {[kind |-> "json", safe |-> f, leap |-> f]})
       \cup (IF Len(ws) > 0
             THEN {[kind |-> "json", safe |-> f, leap |-> RepeatWord(ws)],
                   [kind |-> "json", safe |-> RepeatWord(ws), leap |-> f],
                   [kind |-> "json", safe |-> RepeatWord(ws), leap |-> RepeatWord(ws)]}
             ELSE {})

Failures ==
    {[kind |-> "throw"], [kind |-> "nocontent"], [kind |-> "unparsable"]}

Responses(kind, ws) ==
    IF kind = "prefetch" /\ Len(ws) > MaxPrefetchAnswered
    THEN Failures
    ELSE Failures \cup JsonResponses(ws)

(* The pair a response yields, tagged with the word sequence it was        *)
(* requested for (the tag is bookkeeping, the program does not hold it).   *)
PairOf(resp, ws) ==
    LET p == ParseResponse(resp, ws)
    IN IF p = Null THEN Null
       ELSE [safe |-> p.safe, leap |-> p.leap, req |-> ws]

----------------------------------------------------------------------------
(* Outstanding asynchronous activities *)

getGroqClient(key) == [apiKey |-> key]

MarkStale(s) == [i \in 1..Len(s) |-> [s[i] EXCEPT !.stale = TRUE]]

RemoveAt(s, i) == SubSeq(s, 1, i - 1) \o SubSeq(s, i + 1, Len(s))

Call(kind, ws) == [kind |-> kind, words |-> ws, stale |-> FALSE]

(* useState(() => 8 + Math.floor(Math.random() * 5)), line 136 *)
DrawTargetLengthWide == {TargetMin + r : r \in 0..TargetSpan}

DrawTargetLength == {TargetMin + r : r \in 0..(TargetSpan - 1)}

KeptSentence == words

(* beginSentence line 178: setWords([]) *)
EmptySentence == <<>>

----------------------------------------------------------------------------
Init ==
    /\ words = <<>>
    /\ phase = "key-entry"
    /\ currentPair = Null
    /\ prefetchedPair = Null
    /\ chosenSide = NoSide
    /\ targetLength \in DrawTargetLength
    /\ isLoading = FALSE
    /\ sentenceCount = 0
    /\ apiKey = NoKey
    /\ keyInput = <<>>
    /\ keyError = FALSE
    /\ prefetchRef = FALSE
    /\ groqRef = Null
    /\ stored \in {NoKey, TheKey}
    /\ mounted = FALSE
    /\ calls = <<>>
    /\ timers = <<>>
    /\ micro = "none"
    /\ last = [op |-> "init"]
    /\ begun = 0
    /\ draws = 1
    /\ probe = [op |-> "none"]

(* The mount effect (lines 146-153) and, when a key was stored, the        *)
(* begin-on-waiting effect (lines 197-201) running beginSentence.          *)
Mount ==
    /\ UNCHANGED <<draws, probe>>
    /\ micro = "none"
    /\ ~mounted
    /\ mounted' = TRUE
    /\ IF stored # NoKey
       THEN /\ apiKey' = stored
            /\ groqRef' = getGroqClient(stored)
            /\ phase' = "waiting"
            /\ isLoading' = TRUE
            /\ calls' = Append(MarkStale(calls), Call("begin", <<>>))
       ELSE UNCHANGED <<apiKey, groqRef, phase, isLoading, calls>>
    /\ last' = [op |-> "mount"]
    /\ begun' = IF stored # NoKey THEN begun + 1 ELSE begun
    /\ UNCHANGED <<words, currentPair, prefetchedPair, chosenSide, targetLength,
                   sentenceCount, keyInput, keyError, prefetchRef, stored, timers>>
    /\ UNCHANGED micro

(* onChange of the key input, rendered only on the key-entry screen *)
TypeKey(k) ==
    /\ UNCHANGED <<draws, probe>>
    /\ micro = "none"
    /\ mounted
    /\ phase = "key-entry"
    /\ keyInput # k
    /\ keyInput' = k
    /\ last' = [op |-> "type"]
    /\ UNCHANGED begun
    /\ UNCHANGED <<words, phase, currentPair, prefetchedPair, chosenSide,
                   targetLength, isLoading, sentenceCount, apiKey, keyError,
                   prefetchRef, groqRef, stored, mounted, calls, timers>>
    /\ UNCHANGED micro

(* submitKey (lines 204-212) followed by the begin-on-waiting effect *)
SubmitKey ==
    /\ UNCHANGED <<draws, probe>>
    /\ micro = "none"
    /\ mounted
    /\ phase = "key-entry"
    /\ begun < MaxBegins
    /\ Len(calls) < MaxCalls
    /\ LET trimmed == Trim(keyInput)
       IN /\ trimmed # <<>>
          /\ keyError' = FALSE
          /\ stored' = trimmed
          /\ apiKey' = trimmed
          /\ groqRef' = getGroqClient(trimmed)
    /\ phase' = "waiting"
    /\ words' = EmptySentence
    /\ chosenSide' = NoSide
    /\ prefetchedPair' = Null
    /\ isLoading' = TRUE
    /\ calls' = Append(MarkStale(calls), Call("begin", <<>>))
    /\ timers' = MarkStale(timers)
    /\ last' = [op |-> "submit"]
    /\ begun' = begun + 1
    /\ UNCHANGED <<currentPair, targetLength, sentenceCount, keyInput,
                   prefetchRef, mounted>>
    /\ UNCHANGED micro

KeptClient == groqRef

(* clearKey line 288: groqRef.current = null *)
ClearedClient == Null

(* clearKey (lines 284-290); the button is rendered off the key-entry      *)
(* screen while apiKey is non-empty                                        *)
clearKey ==
    /\ UNCHANGED <<draws, probe>>
    /\ micro = "none"
    /\ mounted
    /\ phase # "key-entry"
    /\ apiKey # NoKey
    /\ Len(words) <= MaxForgetWords
    /\ stored' = NoKey
    /\ apiKey' = NoKey
    /\ keyInput' = <<>>
    /\ groqRef' = ClearedClient
    /\ phase' = "key-entry"
    /\ last' = [op |-> "clear"]
    /\ UNCHANGED begun
    /\ UNCHANGED <<words, currentPair, prefetchedPair, chosenSide, targetLength,
                   isLoading, sentenceCount, keyError, prefetchRef, mounted,
                   calls, timers>>
    /\ UNCHANGED micro

(* beginSentence (lines 177-194) called from the begin-again button or the *)
(* keyboard handler in phase complete, up to its await; the render that    *)
(* follows shows phase waiting, so the begin-on-waiting effect (lines      *)
(* 197-201) calls beginSentence once more when a key is held.  Without a   *)
(* client fetchPair answers null at once and the failure branch runs.      *)
Restart ==
    /\ UNCHANGED <<draws, probe>>
    /\ mounted
    /\ phase = "complete"
    /\ micro = "none"
    /\ begun < MaxBegins
    /\ words' = EmptySentence
    /\ chosenSide' = NoSide
    /\ prefetchedPair' = Null
    /\ timers' = MarkStale(timers)
    /\ phase' = "waiting"
    /\ isLoading' = TRUE
    /\ IF groqRef = Null
       THEN /\ micro' = "begin"
            /\ calls' = MarkStale(calls)
       ELSE /\ micro' = "none"
            /\ LET byEffect == IF apiKey # NoKey
                               THEN <<Call("begin", <<>>)>> ELSE <<>>
               IN /\ calls' = Append(MarkStale(calls), Call("begin", <<>>))
                                  \o byEffect
                  /\ Len(calls') <= MaxCalls
    /\ last' = [op |-> "restart"]
    /\ begun' = begun + 1
    /\ UNCHANGED <<currentPair, targetLength, sentenceCount, apiKey, keyInput,
                   keyError,
                   prefetchRef, groqRef, stored, mounted>>

(* An earlier choice is still being processed: its settle timer is        *)
(* pending or its blocking fetch is outstanding.                           *)
Busy == Len(timers) > 0 \/ \E i \in 1..Len(calls) : calls[i].kind = "next"

PrefetchAlwaysIdle == TRUE

(* prefetchNext line 165: a prefetch starts only while none is outstanding *)
PrefetchIdle == ~prefetchRef

(* chooseWord line 225: the condition under which prefetchNext is called *)
WantsPrefetch(ws, chosen, target) == Len(Append(ws, chosen)) < target

CanChooseWithPair == currentPair # Null

(* chooseWord line 217: the handler returns at once unless the phase is    *)
(* choosing and a current pair exists                                      *)
CanChoose == phase = "choosing" /\ currentPair # Null

(* chooseWord (lines 215-230) up to the settle delay, with the synchronous *)
(* part of prefetchNext (lines 164-169).  The timer keeps what the handler *)
(* closed over: words and prefetchedPair of the render of the click.       *)
chooseWord(side) ==
    /\ UNCHANGED <<draws, probe>>
    /\ mounted
    /\ CanChoose
    /\ micro = "none"
    /\ Len(timers) < MaxTimers
    /\ Busy => Len(words) <= MaxRechooseWords
    /\ LET chosen == currentPair[side]
           start  == WantsPrefetch(words, chosen, targetLength) /\ PrefetchIdle
       IN /\ chosenSide' = side
          /\ phase' = "dissolving"
          /\ timers' = Append(timers, [words |-> words, chosen |-> chosen,
                                       prefetchedPair |-> prefetchedPair,
                                       stale |-> FALSE])
          /\ IF start /\ groqRef # Null
             THEN /\ Len(calls) < MaxCalls
                  /\ prefetchRef' = TRUE
                  /\ calls' = Append(calls, Call("prefetch", Append(words, chosen)))
                  /\ micro' = "none"
             ELSE IF start
             THEN /\ prefetchRef' = TRUE
                  /\ micro' = "prefetch"
                  /\ UNCHANGED calls
             ELSE UNCHANGED <<prefetchRef, calls, micro>>
          /\ last' = [op |-> "choose", started |-> start, chosen |-> chosen]
    /\ UNCHANGED begun
    /\ UNCHANGED <<words, currentPair, prefetchedPair, targetLength, isLoading, sentenceCount,
                   apiKey, keyInput, keyError, groqRef, stored, mounted>>

SentenceDoneAlways(newWords, chosen, target) == TRUE

IncrementTwice(c) == c + 2

(* chooseWord line 245: setSentenceCount((c) => c + 1) *)
Increment(c) == c + 1

(* chooseWord lines 236-237: is the sentence done with this word *)
SentenceDone(newWords, chosen, target) ==
    Len(newWords) >= target \/ EndsWithPeriod(chosen)

SealedWordsPlain(newWords, chosen) == newWords

(* chooseWord lines 239-243: the words stored when the sentence is sealed *)
SealedWords(newWords, chosen) ==
    IF ~EndsWithPeriod(chosen)
    THEN [newWords EXCEPT ![Len(newWords)] = AddPeriod(chosen)]
    ELSE newWords

(* chooseWord (lines 232-263) after the settle delay, up to its next       *)
(* await.  All timers have the same delay (line 230), so they expire in    *)
(* the order they were set.                                                *)
SettleTimer ==
    /\ UNCHANGED <<draws, probe>>
    /\ micro = "none"
    /\ Len(timers) > 0
    /\ LET t == Head(timers)
           newWords == Append(t.words, t.chosen)
       IN /\ timers' = Tail(timers)
          /\ IF SentenceDone(newWords, t.chosen, targetLength)
             THEN /\ words' = SealedWords(newWords, t.chosen)
                  /\ phase' = "complete"
                  /\ sentenceCount' = Increment(sentenceCount)
                  /\ last' = [op |-> "seal", stale |-> t.stale,
                              before |-> t.words, chosen |-> t.chosen]
                  /\ UNCHANGED <<chosenSide, currentPair, prefetchedPair,
                                 isLoading, calls>>
             ELSE /\ words' = newWords
                  /\ chosenSide' = NoSide
                  /\ UNCHANGED sentenceCount
                  /\ IF t.prefetchedPair # Null
                     THEN /\ currentPair' = t.prefetchedPair
                          /\ prefetchedPair' = Null
                          /\ phase' = "choosing"
                          /\ last' = [op |-> "adopt", stale |-> t.stale,
                                      req |-> t.prefetchedPair.req]
                          /\ UNCHANGED <<isLoading, calls>>
                     ELSE IF groqRef # Null
                     THEN /\ Len(calls) < MaxCalls
                          /\ isLoading' = TRUE
                          /\ calls' = Append(calls, [Call("next", newWords)
                                                      EXCEPT !.stale = t.stale])
                          /\ last' = [op |-> "fetch", stale |-> t.stale]
                          /\ UNCHANGED <<currentPair, prefetchedPair, phase>>
                     ELSE /\ isLoading' = FALSE
                          /\ last' = [op |-> "noClient", stale |-> t.stale]
                          /\ UNCHANGED <<currentPair, prefetchedPair, phase,
                                         calls>>
    /\ UNCHANGED begun
    /\ UNCHANGED <<targetLength, apiKey, keyInput, keyError, prefetchRef,
                   groqRef, stored, mounted>>
    /\ UNCHANGED micro

PrefetchFlagKept == prefetchRef

(* prefetchNext line 171: prefetchRef.current = false *)
PrefetchFlagAfterReturn == FALSE

(* fetchPair line 157: without a client the promise is already resolved   *)
(* with null, and the caller's continuation runs before any other event:  *)
(* beginSentence lines 188-193, or prefetchNext lines 170-171.            *)
NullFetch ==
    /\ UNCHANGED <<draws, probe>>
    /\ micro # "none"
    /\ micro' = "none"
    /\ IF micro = "begin"
       THEN /\ keyError' = TRUE
            /\ phase' = "key-entry"
            /\ isLoading' = FALSE
            /\ last' = [op |-> "beginFail", stale |-> FALSE]
            /\ UNCHANGED <<prefetchedPair, prefetchRef>>
       ELSE /\ prefetchedPair' = Null
            /\ prefetchRef' = PrefetchFlagAfterReturn
            /\ last' = [op |-> "prefetched", stale |-> FALSE, got |-> FALSE]
            /\ UNCHANGED <<keyError, phase, isLoading>>
    /\ UNCHANGED <<words, currentPair, chosenSide, targetLength, sentenceCount,
                   apiKey, keyInput, groqRef, stored, mounted, calls, timers,
                   begun>>

PhaseAfterBeginStrict(pair) == "key-entry"

(* beginSentence lines 185-191: choosing with a pair, key-entry without *)
PhaseAfterBegin(pair) == IF pair # Null THEN "choosing" ELSE "key-entry"

(* beginSentence lines 184-193: the first-pair fetch returns *)
BeginReturn(i, resp) ==
    /\ UNCHANGED <<draws, probe>>
    /\ micro = "none"
    /\ i \in 1..Len(calls)
    /\ calls[i].kind = "begin"
    /\ calls' = RemoveAt(calls, i)
    /\ LET pair == PairOf(resp, calls[i].words)
       IN IF pair # Null
          THEN /\ currentPair' = pair
               /\ phase' = PhaseAfterBegin(pair)
               /\ last' = [op |-> "beginOk", stale |-> calls[i].stale]
               /\ UNCHANGED keyError
          ELSE /\ keyError' = TRUE
               /\ phase' = PhaseAfterBegin(pair)
               /\ last' = [op |-> "beginFail", stale |-> calls[i].stale]
               /\ UNCHANGED currentPair
    /\ isLoading' = FALSE
    /\ UNCHANGED begun
    /\ UNCHANGED <<words, prefetchedPair, chosenSide, targetLength,
                   sentenceCount, apiKey, keyInput, prefetchRef, groqRef,
                   stored, mounted, timers>>
    /\ UNCHANGED micro

(* prefetchNext lines 169-171: the prefetch returns *)
PrefetchReturn(i, resp) ==
    /\ UNCHANGED <<draws, probe>>
    /\ micro = "none"
    /\ i \in 1..Len(calls)
    /\ calls[i].kind = "prefetch"
    /\ calls' = RemoveAt(calls, i)
    /\ prefetchedPair' = PairOf(resp, calls[i].words)
    /\ prefetchRef' = PrefetchFlagAfterReturn
    /\ last' = [op |-> "prefetched", stale |-> calls[i].stale,
                got |-> prefetchedPair' # Null]
    /\ UNCHANGED begun
    /\ UNCHANGED <<words, phase, currentPair, chosenSide, targetLength,
                   isLoading, sentenceCount, apiKey, keyInput, keyError,
                   groqRef, stored, mounted, timers>>
    /\ UNCHANGED micro

AdoptAlways(pair, current) == pair

(* chooseWord lines 258-259: setCurrentPair only when a pair came back *)
AdoptIfPair(pair, current) == IF pair # Null THEN pair ELSE current

LoadingKept == isLoading

(* chooseWord line 262: setIsLoading(false) *)
LoadingAfterFetch == FALSE

(* chooseWord lines 257-262: the blocking fetch for the next pair returns *)
NextReturn(i, resp) ==
    /\ UNCHANGED <<draws, probe>>
    /\ micro = "none"
    /\ i \in 1..Len(calls)
    /\ calls[i].kind = "next"
    /\ calls' = RemoveAt(calls, i)
    /\ LET pair == PairOf(resp, calls[i].words)
       IN IF pair # Null
          THEN /\ currentPair' = AdoptIfPair(pair, currentPair)
               /\ phase' = "choosing"
               /\ last' = [op |-> "nextOk", stale |-> calls[i].stale]
          ELSE /\ currentPair' = AdoptIfPair(pair, currentPair)
               /\ last' = [op |-> "nextFail", stale |-> calls[i].stale,
                           words |-> calls[i].words]
               /\ UNCHANGED phase
    /\ isLoading' = LoadingAfterFetch
    /\ UNCHANGED begun
    /\ UNCHANGED <<words, prefetchedPair, chosenSide, targetLength,
                   sentenceCount, apiKey, keyInput, keyError, prefetchRef,
                   groqRef, stored, mounted, timers>>
    /\ UNCHANGED micro

Next ==
    \/ Mount
    \/ \E k \in KeyInputs : TypeKey(k)
    \/ SubmitKey
    \/ clearKey
    \/ Restart
    \/ \E side \in Sides : chooseWord(side)
    \/ SettleTimer
    \/ NullFetch
    \/ \E i \in 1..Len(calls) :
          \E resp \in Responses(calls[i].kind, calls[i].words) : BeginReturn(i, resp)
    \/ \E i \in 1..Len(calls) :
          \E resp \in Responses(calls[i].kind, calls[i].words) : PrefetchReturn(i, resp)
    \/ \E i \in 1..Len(calls) :
          \E resp \in Responses(calls[i].kind, calls[i].words) : NextReturn(i, resp)

Spec == Init /\ [][Next]_vars

TypeOK ==
    /\ phase \in {"key-entry", "waiting", "choosing", "dissolving", "complete"}
    /\ Len(calls) <= MaxCalls
    /\ Len(timers) <= MaxTimers

----------------------------------------------------------------------------
PromptVariantEarlyLast(wordCount, targetLen) ==
    IF wordCount = 0 THEN "opening"
    ELSE IF targetLen - wordCount <= 2 THEN "last"
    ELSE IF targetLen - wordCount <= 3 THEN "near-end"
    ELSE "middle"

(* generatePair lines 57-97: the prompt variant chosen for a request made  *)
(* for wordCount words with target length targetLen                        *)
PromptVariant(wordCount, targetLen) ==
    LET remaining == targetLen - wordCount
    IN IF wordCount = 0 THEN "opening"
       ELSE IF remaining <= 1 THEN "last"
       ELSE IF remaining <= 3 THEN "near-end"
       ELSE "middle"

PostFieldsAny(pair) == TRUE

(* POST lines 601-606: the pair is answered only when both fields are      *)
(* truthy                                                                  *)
PostFieldsOk(pair) == pair.safe # <<>> /\ pair.leap # <<>>

(* POST (lines 523-616).  body is what request.json() yields, upstream     *)
(* what the completion call yields; every statement is inside the try, so  *)
(* anything thrown is answered by the catch clause (lines 609-615).        *)
POST(body, upstream) ==
    LET caught == [kind |-> "response", status |-> 500,
                   body |-> [error |-> "Failed to generate words"]]
    IN IF body.kind # "object" \/ ~body.wordsIsArray THEN caught
       ELSE IF upstream.kind = "throw" THEN caught
       ELSE IF upstream.kind = "nocontent"
       THEN [kind |-> "response", status |-> 500,
             body |-> [error |-> "No response from model"]]
       ELSE IF upstream.kind \in {"unparsable", "jsonNull"} THEN caught
       ELSE LET pair == [safe |-> upstream.safe, leap |-> upstream.leap]
            IN IF ~PostFieldsOk(pair)
               THEN [kind |-> "response", status |-> 500,
                     body |-> [error |-> "Invalid word pair format"]]
               ELSE [kind |-> "response", status |-> 200, body |-> pair]

(* Inputs of the pure functions *)
MaxUsedLen == 2
SampleWords == {<<>>, <<"a">>, <<"A", ".">>, <<"b">>, <<"b", ".">>, <<"c">>}
SentenceWords == {<<"a">>, <<"B">>, <<"b", ".">>}
SeqsUpTo(S, n) == UNION {[1..k -> S] : k \in 0..n}
RawPairs == [safe : SampleWords, leap : SampleWords]
PostBodies ==
    {[kind |-> "unparsable", wordsIsArray |-> FALSE],
     [kind |-> "object", wordsIsArray |-> FALSE],
     [kind |-> "object", wordsIsArray |-> TRUE]}
Upstreams ==
    Failures \cup {[kind |-> "jsonNull"]}
             \cup {[kind |-> "json", safe |-> r.safe, leap |-> r.leap] :
                      r \in RawPairs}

controller == <<words, phase, currentPair, prefetchedPair, chosenSide,
                targetLength, isLoading, sentenceCount, apiKey, keyInput,
                keyError, prefetchRef, groqRef, stored, mounted, calls,
                timers, micro, last, begun, draws>>

Validate(raw, ws) ==
    /\ probe' = [op |-> "validate", raw |-> raw, words |-> ws,
                 out |-> ValidatePair(raw, UsedWords(ws))]
    /\ UNCHANGED controller

BuildPrompt(n) ==
    /\ probe' = [op |-> "prompt", wordCount |-> n,
                 variant |-> PromptVariant(n, targetLength)]
    /\ UNCHANGED controller

Post(body, upstream) ==
    /\ probe' = [op |-> "post", body |-> body, upstream |-> upstream,
                 out |-> POST(body, upstream)]
    /\ UNCHANGED controller

NextPure ==
    \/ \E raw \in RawPairs : \E ws \in SeqsUpTo(SentenceWords, MaxUsedLen) :
          Validate(raw, ws)
    \/ \E n \in 0..(targetLength - 1) : BuildPrompt(n)
    \/ \E body \in PostBodies : \E upstream \in Upstreams : Post(body, upstream)

SpecPure == Init /\ [][NextPure]_vars

----------------------------------------------------------------------------
(* A run in which a stored key is found at mount, every oracle call yields *)
(* a pair of period-less words and the user picks leap whenever the phase  *)
(* is choosing.                                                            *)

(* What the oracle may answer in such a run: the first unused letter, or a *)
(* period-less repeat of the first word on one side (which the validator   *)
(* repairs).                                                               *)
GoodResponses(ws) ==
    LET f == FreshWord(ws)
        candidates == IF Len(ws) = 0 THEN {f} ELSE {f, Clean(ws[1])}
    IN {r \in [kind : {"json"}, safe : candidates, leap : candidates] :
           ParseResponse(r, ws) # Null}

MaxLiveTarget == 9

InitLive == Init /\ stored = TheKey /\ targetLength <= MaxLiveTarget

BeginReturns ==
    \E i \in 1..Len(calls) :
       \E resp \in GoodResponses(calls[i].words) : BeginReturn(i, resp)

PrefetchReturns ==
    \E i \in 1..Len(calls) :
       \E resp \in GoodResponses(calls[i].words) : PrefetchReturn(i, resp)

NextReturns ==
    \E i \in 1..Len(calls) :
       \E resp \in GoodResponses(calls[i].words) : NextReturn(i, resp)

NextLive ==
    \/ Mount
    \/ chooseWord("leap")
    \/ SettleTimer
    \/ BeginReturns
    \/ PrefetchReturns
    \/ NextReturns

(* The settle timer expires, every oracle call returns and the user keeps  *)
(* choosing: some step of the run is eventually taken while one is         *)
(* possible.                                                               *)
SpecLive == InitLive /\ [][NextLive]_vars /\ WF_vars(NextLive)

----------------------------------------------------------------------------
(* C1: the sentence never holds more words than targetLength. *)
C1_WordsWithinTarget == Len(words) <= targetLength

(* C2 as stated: a completed sentence holds at least 8 and at most 12      *)
(* words.                                                                  *)
C2_CompleteLength ==
    phase = "complete" => Len(words) >= 8 /\ Len(words) <= 12

(* C2: a completed sentence holds at least one word, and a sentence is     *)
(* sealed with fewer than targetLength words only when the committed word  *)
(* already ended with a period.                                            *)
C2_SealedLength ==
    /\ phase = "complete" => Len(words) >= 1
    /\ last.op = "seal" =>
          Len(words) >= targetLength \/ EndsWithPeriod(last.chosen)

C2_Witness ==
    /\ phase = "complete"
    /\ last.op = "seal"
    /\ Len(words) < TargetMin
    /\ EndsWithPeriod(last.chosen)

LastWord == words[Len(words)]

(* C3: in phase complete the last word ends with a period; sealing appends *)
(* exactly one period to a committed word that lacks one and changes no    *)
(* other word, and stores a word that already ends with one unchanged.     *)
C3_SealedWithPeriod ==
    /\ phase = "complete" => Len(words) > 0 /\ EndsWithPeriod(LastWord)
    /\ last.op = "seal" =>
          words = Append(last.before,
                         IF EndsWithPeriod(last.chosen) THEN last.chosen
                         ELSE last.chosen \o <<".">>)

(* C4: no two words of the sentence are equal after stripping a trailing   *)
(* period and lowercasing.                                                 *)
C4_NoRepeatedWord ==
    \A i, j \in 1..Len(words) : i # j => Clean(words[i]) # Clean(words[j])

(* C5: a prefetched pair that is adopted as the current pair was requested *)
(* for exactly the word sequence the sentence holds at adoption.           *)
C5_AdoptedForCurrentWords ==
    last.op = "adopt" => currentPair.req = words

(* C7: a response to a request issued before a newer sentence was begun is *)
(* discarded: it does not become the current or the prefetched pair and    *)
(* does not change the phase.                                              *)
C7_StaleResponseDiscarded ==
    /\ last.op \in {"beginOk", "beginFail", "nextOk"} => ~last.stale
    /\ last.op = "prefetched" /\ last.got => ~last.stale

PrefetchesInFlight ==
    Cardinality({i \in 1..Len(calls) : calls[i].kind = "prefetch"})

(* C6: at most one prefetch call is in flight at any time, and a choice    *)
(* made while a prefetch is outstanding issues no oracle call and leaves   *)
(* the prefetch state as it was.                                           *)
C6_SinglePrefetch ==
    /\ [](PrefetchesInFlight <= 1)
    /\ [][(prefetchRef /\ last'.op = "choose") =>
             /\ calls' = calls
             /\ prefetchRef' = prefetchRef
             /\ prefetchedPair' = prefetchedPair
             /\ micro' = micro]_vars

C6_Witness ==
    /\ last.op = "choose"
    /\ ~last.started
    /\ PrefetchesInFlight = 1
    /\ Len(words) + 1 < targetLength

(* C8: right after a restart from phase complete the phase is waiting and  *)
(* the sentence is empty.                                                  *)
C8_RestartResets ==
    last.op = "restart" => phase = "waiting" /\ words = <<>>

C8_Witness ==
    /\ last.op = "restart"
    /\ sentenceCount >= 1
    /\ phase = "waiting"
    /\ currentPair # Null

(* C9: a restart draws a new targetLength for the new sentence. *)
C9_RestartDraws ==
    last.op = "restart" => draws >= 2

(* C10: targetLength is in 8..12 in every state, and no step other than    *)
(* the start of a sentence changes it.                                     *)
C10_TargetFixed ==
    /\ [](targetLength \in 8..12)
    /\ [][last'.op \notin {"mount", "submit", "restart"} =>
             targetLength' = targetLength]_vars

C10_Witness ==
    /\ phase = "complete"
    /\ sentenceCount = 1
    /\ targetLength = 12
    /\ Len(words) = targetLength

(* C11: while the key-entry screen is shown (after the mount effect has    *)
(* run) no credential is held: the persisted key and the in-memory key are *)
(* empty and there is no oracle client.                                    *)
C11_KeyEntryWithoutCredential ==
    (mounted /\ phase = "key-entry") =>
        stored = NoKey /\ apiKey = NoKey /\ groqRef = Null

(* C12: when the fetch of a sentence's first pair yields no pair the       *)
(* controller is in key-entry with the error flag set and the sentence     *)
(* empty; when it yields a pair the controller is in choosing with that    *)
(* pair as the current pair.                                               *)
C12_FirstPairOutcome ==
    /\ last.op = "beginFail" =>
          phase = "key-entry" /\ keyError /\ words = <<>>
    /\ last.op = "beginOk" =>
          phase = "choosing" /\ currentPair # Null /\ currentPair.req = <<>>

(* C13: after the forget-key action the in-memory key, the persisted copy  *)
(* and the oracle client are gone and the phase is key-entry.              *)
C13_ForgetClearsCredential ==
    last.op = "clear" =>
        /\ apiKey = NoKey
        /\ stored = NoKey
        /\ groqRef = Null
        /\ phase = "key-entry"

C13_Witness ==
    /\ last.op = "clear"
    /\ sentenceCount >= 1
    /\ Len(words) >= 1
    /\ currentPair # Null

(* C14: a choice changes state only in phase choosing with a current pair  *)
(* (so none is taken while an earlier one is settling in phase             *)
(* dissolving), and a restart only in phase complete.                      *)
C14_InputGuards ==
    [][/\ last'.op = "choose" =>
            phase = "choosing" /\ currentPair # Null /\ phase # "dissolving"
       /\ last'.op = "restart" => phase = "complete"]_vars

C14_Witness ==
    /\ last.op = "choose"
    /\ phase = "dissolving"
    /\ Len(words) >= 1
    /\ sentenceCount >= 1

(* C15: the validator returns no pair when a field is empty or when both   *)
(* words collide with the used set; when exactly one collides, a pair      *)
(* whose two fields are the other field's original value; and the raw      *)
(* pair unchanged when neither collides.                                   *)
C15_ValidatorCases ==
    probe.op = "validate" =>
        LET raw  == probe.raw
            used == UsedWords(probe.words)
            safeCollides == ToLowerCase(StripPeriod(raw.safe)) \in used
            leapCollides == ToLowerCase(StripPeriod(raw.leap)) \in used
        IN probe.out =
              IF raw.safe = <<>> \/ raw.leap = <<>> THEN Null
              ELSE IF safeCollides /\ leapCollides THEN Null
              ELSE IF safeCollides
                   THEN [safe |-> raw.leap, leap |-> raw.leap]
              ELSE IF leapCollides
                   THEN [safe |-> raw.safe, leap |-> raw.safe]
              ELSE raw

C15_Witness ==
    /\ probe.op = "validate"
    /\ probe.out # Null
    /\ probe.out # probe.raw
    /\ probe.out.safe = probe.out.leap

(* C16: neither word of a pair the validator returns equals, after         *)
(* stripping a trailing period and lowercasing, a word of the sequence the *)
(* pair was requested for.                                                 *)
C16_ReturnedPairUnused ==
    (probe.op = "validate" /\ probe.out # Null) =>
        \A i \in 1..Len(probe.words) :
            /\ Clean(probe.out.safe) # Clean(probe.words[i])
            /\ Clean(probe.out.leap) # Clean(probe.words[i])

C16_Witness ==
    /\ probe.op = "validate"
    /\ probe.out # Null
    /\ Len(probe.words) = MaxUsedLen
    /\ probe.raw.safe # probe.raw.leap
    /\ probe.out = probe.raw

(* C17: the prompt variant is opening for an empty sentence, otherwise     *)
(* last-word when at most one word remains, otherwise near-end when two or *)
(* three remain, otherwise middle.                                         *)
C17_PromptVariant ==
    probe.op = "prompt" =>
        LET n == probe.wordCount
        IN probe.variant =
              IF n = 0 THEN "opening"
              ELSE IF targetLength - n <= 1 THEN "last"
              ELSE IF targetLength - n \in {2, 3} THEN "near-end"
              ELSE "middle"

C17_Witness ==
    /\ probe.op = "prompt"
    /\ probe.wordCount = targetLength - 1
    /\ probe.variant = "last"

(* C19: the POST handler answers 200 with non-empty safe and leap, or 500  *)
(* with an error body; missing content, unparsable JSON, an empty field    *)
(* and any exception give the 500 answer, and nothing escapes the handler. *)
C19_PostOutcome ==
    probe.op = "post" =>
        LET out == probe.out
            ok  == /\ probe.body.kind = "object"
                   /\ probe.body.wordsIsArray
                   /\ probe.upstream.kind = "json"
                   /\ probe.upstream.safe # <<>>
                   /\ probe.upstream.leap # <<>>
        IN /\ out.kind = "response"
           /\ \/ /\ out.status = 200
                 /\ DOMAIN out.body = {"safe", "leap"}
                 /\ out.body.safe # <<>>
                 /\ out.body.leap # <<>>
              \/ /\ out.status = 500
                 /\ DOMAIN out.body = {"error"}
           /\ ~ok => out.status = 500

C19_Witness ==
    /\ probe.op = "post"
    /\ probe.out.status = 200
    /\ probe.out.body.safe # probe.out.body.leap

(* C18: with an oracle that always yields period-less pairs and a user who *)
(* always picks leap, the controller eventually is in phase complete with  *)
(* exactly targetLength words, the last one ending with a period.          *)
C18_EventuallyComplete ==
    <>(/\ phase = "complete"
       /\ Len(words) = targetLength
       /\ EndsWithPeriod(LastWord))

C18_Witness ==
    /\ phase = "complete"
    /\ targetLength = 8
    /\ Len(words) = 8
    /\ EndsWithPeriod(LastWord)
    /\ chosenSide = "leap"

(* C20: when a choice is committed at the end of the settle delay the      *)
(* phase is complete afterwards exactly when the sentence then has at      *)
(* least targetLength words or the chosen word ends with a period;         *)
(* otherwise the controller adopts the prefetched pair or fetches the next *)
(* pair.                                                                   *)
C20_CommitOutcome ==
    [][(Len(timers) > 0 /\ timers' = Tail(timers)) =>
          LET t    == Head(timers)
              done == \/ Len(words') >= targetLength
                      \/ EndsWithPeriod(t.chosen)
          IN /\ (phase' = "complete") <=> done
             /\ ~done =>
                   \/ currentPair' = t.prefetchedPair /\ phase' = "choosing"
                   \/ Len(calls') = Len(calls) + 1
                   \/ groqRef = Null]_vars

(* A step in which the settle delay of a choice ends *)
SettleStep == Len(timers) > 0 /\ timers' = Tail(timers)

(* A step in which the blocking fetch for the next pair returns no pair *)
NextFailStep == last'.op = "nextFail" /\ Len(calls') < Len(calls)

BlockingInFlight ==
    Cardinality({i \in 1..Len(calls) : calls[i].kind \in {"begin", "next"}})

(* C21: at the end of the settle delay of a non-completing choice, when    *)
(* the prefetch started for that choice has returned a pair, the pair      *)
(* becomes the current pair, the prefetched slot is emptied, the phase     *)
(* becomes choosing and no oracle call is issued; otherwise exactly one    *)
(* fetch is issued for the updated words and choosing is not entered yet.  *)
C21_AdoptOrFetch ==
    [][(SettleStep /\ groqRef # Null) =>
          LET t        == Head(timers)
              newWords == Append(t.words, t.chosen)
              done     == \/ Len(newWords) >= targetLength
                          \/ EndsWithPeriod(t.chosen)
              ready    == /\ prefetchedPair # Null
                          /\ prefetchedPair.req = newWords
          IN ~done =>
                IF ready
                THEN /\ currentPair' = prefetchedPair
                     /\ prefetchedPair' = Null
                     /\ phase' = "choosing"
                     /\ calls' = calls
                ELSE /\ calls' = Append(calls, Call("next", newWords))
                     /\ phase' = phase]_vars

(* C22: at most two oracle calls are outstanding, at most one of them a    *)
(* blocking fetch and at most one a prefetch.                              *)
C22_OutstandingCalls ==
    /\ Len(calls) <= 2
    /\ BlockingInFlight <= 1
    /\ PrefetchesInFlight <= 1

(* C23: an accepted choice starts a prefetch exactly when the sentence     *)
(* will have fewer than targetLength words after the chosen word, that     *)
(* word has no trailing period and no prefetch is in flight; the prefetch  *)
(* is requested for the words so far followed by the chosen word.          *)
C23_PrefetchWhenIncomplete ==
    [][last'.op = "choose" =>
          LET chosen   == last'.chosen
              complete == \/ Len(words) + 1 >= targetLength
                          \/ EndsWithPeriod(chosen)
          IN /\ last'.started <=> (~complete /\ ~prefetchRef)
             /\ (last'.started /\ groqRef # Null) =>
                   calls' = Append(calls,
                                   Call("prefetch", Append(words, chosen)))
             /\ ~last'.started => calls' = calls]_vars

(* C24: right after a restart the current pair, the prefetched pair, the   *)
(* prefetch-in-flight marker and the chosen side are all empty.            *)
C24_RestartClearsAll ==
    last.op = "restart" =>
        /\ currentPair = Null
        /\ prefetchedPair = Null
        /\ ~prefetchRef
        /\ chosenSide = NoSide

(* Nothing is pending that could move a controller waiting in dissolving *)
Stalled ==
    /\ phase = "dissolving"
    /\ timers = <<>>
    /\ BlockingInFlight = 0
    /\ micro = "none"

C26_LeftOnCurrentPair ==
    (last.op = "nextFail" /\ ~last.stale) =>
        /\ words = SubSeq(last.words, 1, Len(last.words) - 1)
        /\ phase = "choosing"
        /\ currentPair # Null

(* C26: when a mid-sentence fetch yields no pair, the current pair, the    *)
(* sentence (which already holds the chosen word) and the phase are left   *)
(* as they are, so from phase dissolving no choice can be made.            *)
C26_FailedFetchKeepsState ==
    [][NextFailStep =>
          /\ currentPair' = currentPair
          /\ words' = words
          /\ phase' = phase
          /\ phase = "dissolving" => phase' # "choosing"]_vars

C26_Witness ==
    /\ last.op = "nextFail"
    /\ ~last.stale
    /\ phase = "dissolving"
    /\ currentPair # Null
    /\ words = last.words
    /\ words[Len(words)] \in {currentPair.safe, currentPair.leap}

(* C27: while a credential is held the phase becomes key-entry only by the *)
(* forget-key action or by a failed first-pair fetch.                      *)
C27_KeyEntryCauses ==
    [][(apiKey # NoKey /\ phase # "key-entry" /\ phase' = "key-entry") =>
          last'.op \in {"clear", "beginFail"}]_vars

C27_Witness ==
    /\ last.op = "beginFail"
    /\ phase = "key-entry"
    /\ apiKey # NoKey
    /\ keyError

(* C28: before a sentence is complete its words change only by appending   *)
(* one word, the chosen side of the current pair (with the period added    *)
(* when the word seals the sentence), or by being emptied at the start of  *)
(* a sentence.                                                             *)
C28_AppendOnly ==
    [][(phase # "complete" /\ words' # words) =>
          \/ words' = <<>>
          \/ /\ Len(words') = Len(words) + 1
             /\ SubSeq(words', 1, Len(words)) = words
             /\ currentPair # Null
             /\ StripPeriod(words'[Len(words')]) \in
                   {StripPeriod(currentPair.safe),
                    StripPeriod(currentPair.leap)}]_vars

(* C29: the sentence counter never decreases; it grows by exactly one in   *)
(* each step that seals a sentence and is unchanged in every other step.   *)
C29_CounterSteps ==
    [][IF last'.op = "seal" /\ SettleStep
       THEN sentenceCount' = sentenceCount + 1
       ELSE sentenceCount' = sentenceCount]_vars

C29_Witness ==
    /\ last.op = "seal"
    /\ sentenceCount = 2
    /\ phase = "complete"

(* C30: whenever no credential is held (after the mount effect has run)    *)
(* the phase is key-entry.                                                 *)
C30_NoCredentialKeyEntry ==
    (mounted /\ apiKey = NoKey) => phase = "key-entry"


(* The oracle calls for a first pair that belong to the sentence under    *)
(* construction (lines 184, 197-201).                                      *)
BeginsInFlight ==
    Cardinality({i \in 1..Len(calls) :
                    calls[i].kind = "begin" /\ ~calls[i].stale})

(* C31: every sentence start (restart from complete, key submission,      *)
(* recalled key on mount) that has an oracle client leaves exactly one    *)
(* oracle call for the first pair outstanding for the new sentence, never *)
(* two concurrent ones.                                                    *)
C31_SingleBegin ==
    [][(begun' = begun + 1 /\ groqRef' # Null) => BeginsInFlight' = 1]_vars



(* C32: when a first-pair oracle call that was issued before the          *)
(* credential was forgotten and replaced fails while the new credential   *)
(* is held, the failure neither sets the error flag nor changes the       *)
(* phase (in particular it does not return the phase to key-entry).       *)
C32_OldCredentialFailureIgnored ==
    [][(last'.op = "beginFail" /\ last'.stale /\ apiKey # NoKey) =>
          /\ keyError' = keyError
          /\ phase' = phase]_vars


(* A run of prefetchNext is waiting at its await (line 168): its oracle   *)
(* call is outstanding, or, without a client, its continuation is queued. *)
PrefetchOutstanding == PrefetchesInFlight >= 1 \/ micro = "prefetch"

(* C33: the prefetch in-flight flag is set exactly while a prefetch call  *)
(* is outstanding; it is cleared by the return of that call, with or      *)
(* without a pair, and by no other step (mount, restart, key submission   *)
(* and forgetting the key leave it as it is); a choice made while the     *)
(* flag is set starts no prefetch.                                         *)
C33_FlagTracksPrefetch ==
    /\ [](prefetchRef <=> PrefetchOutstanding)
    /\ [][last'.op = "prefetched" => ~prefetchRef']_vars
    /\ [][(prefetchRef /\ ~prefetchRef') => last'.op = "prefetched"]_vars
    /\ [][last'.op \in {"mount", "restart", "submit", "clear"} =>
             prefetchRef' = prefetchRef]_vars
    /\ [][(last'.op = "choose" /\ prefetchRef) =>
             ~last'.started /\ calls' = calls]_vars

C33_Witness ==
    /\ last.op = "restart"
    /\ prefetchRef
    /\ PrefetchesInFlight = 1



(* C34: whenever the phase is choosing or dissolving a current pair       *)
(* exists and both of its words are non-empty.                             *)
C34_PairWhileChoosing ==
    phase \in {"choosing", "dissolving"} =>
        /\ currentPair # Null
        /\ currentPair.safe # <<>>
        /\ currentPair.leap # <<>>

C34_Witness ==
    /\ last.op = "nextOk"
    /\ phase = "choosing"
    /\ currentPair # Null
    /\ Len(currentPair.req) >= 1
    /\ Len(currentPair.safe) >= 1
    /\ Len(currentPair.leap) >= 1

====
